---- MODULE Spec2Model ----
(***************************************************************************)
(* Secure signature traversal: the hash-chain binder (crypto-utils.ts) and *)
(* the chain verifier (traversal.ts), with the signing procedure of the    *)
(* test data generator that builds the documents they are run on.          *)
(*                                                                         *)
(* A JavaScript string is a sequence of atoms (one atom per character, or  *)
(* per lexeme where the characters inside never matter).  DQ and BS are    *)
(* the two characters JSON.stringify escapes.                              *)
(***************************************************************************)
EXTENDS Integers, Sequences, FiniteSets, TLC

\* ------------------------------------------------------------------ bounds
MaxSigs == 3
MaxPrior == 2

VARIABLES
    document,        \* the SignedDocument handed to traverse
    signerRegistry,  \* signerId -> registered address
    pc,              \* "signing", "tampered", "loop", "done" ("off": binder run)
    i,               \* traverse's loop index (1-based; the code's i + 1)
    result,          \* traverse's VerificationResult under construction
    calls,           \* per signature index, the checks performed for it
    signed,          \* the document as the signers produced it, and
                     \* the records cut off the end of its list since
    tampers,         \* what was changed after signing
    bmode,           \* binder run: "payloads", "priors" ("off": verifier run)
    bPayload1, bPayload2, bPrior1, bPrior2,   \* two inputs of calculateExpectedHash
    bData1, bData2,  \* the strings fed to the hash primitive
    bHash1, bHash2,  \* the two expected hashes
    bpc              \* "input", "hashed"

vars == << document, signerRegistry, pc, i, result, calls, signed, tampers,
           bmode, bPayload1, bPayload2, bPrior1, bPrior2,
           bData1, bData2, bHash1, bHash2, bpc >>
verifierVars == << document, signerRegistry, pc, i, result, calls, signed, tampers >>
binderVars == << bmode, bPayload1, bPayload2, bPrior1, bPrior2,
                 bData1, bData2, bHash1, bHash2, bpc >>

\* ------------------------------------------------------------- JS strings
DQ == "\""
BS == "\\"

Range(s) == {s[k] : k \in 1..Len(s)}

\* the concatenation of a sequence of strings (by halves: shallow recursion)
RECURSIVE Flatten(_)
Flatten(ss) ==
    IF ss = <<>> THEN <<>>
    ELSE IF Len(ss) = 1 THEN ss[1]
    ELSE LET h == Len(ss) \div 2
         IN  Flatten(SubSeq(ss, 1, h)) \o Flatten(SubSeq(ss, h + 1, Len(ss)))

\* ------------------------------------------------------ JS values, objects
\* A value is a string or an object; an object is the sequence of its
\* entries in insertion order (the order Object.keys reports).
StrVal(s) == [kind |-> "string", str |-> s, obj |-> <<>>]
ObjVal(o) == [kind |-> "object", str |-> <<>>, obj |-> o]
Entry(k, v) == [key |-> k, val |-> v]

ObjectKeys(o) == [k \in 1..Len(o) |-> o[k].key]
HasKey(o, key) == \E k \in 1..Len(o) : o[k].key = key
Get(o, key) == o[CHOOSE k \in 1..Len(o) : o[k].key = key].val
\* payload[key] = v: an existing key keeps its position, a new one is appended
Put(o, key, v) ==
    IF HasKey(o, key)
    THEN [k \in 1..Len(o) |-> IF o[k].key = key THEN Entry(key, v) ELSE o[k]]
    ELSE Append(o, Entry(key, v))

\* The property names of the model in UTF-16 code unit order, the order of
\* Array.prototype.sort() without a comparator ("signedAt" < "signedHash"
\* since "A" < "H", and both follow "signature" since "a" < "e").
KeyOrder ==
    << "author", "content", "documentId", "metadata",
       "signature", "signedAt", "signedHash", "signerId" >>

Sort(keys) == SelectSeq(KeyOrder, LAMBDA k : k \in Range(keys))

\* ----------------------------------------------------------- JSON.stringify
EscapeChar(c) == IF c = DQ \/ c = BS THEN <<BS, c>> ELSE <<c>>
QuoteJSONString(s) ==
    <<DQ>> \o Flatten([k \in 1..Len(s) |-> EscapeChar(s[k])]) \o <<DQ>>

RECURSIVE Join(_)
Join(parts) ==
    IF parts = <<>> THEN <<>>
    ELSE IF Len(parts) = 1 THEN parts[1]
    ELSE parts[1] \o <<",">> \o Join(Tail(parts))

\* JSON.stringify(value, propertyList): with an array as replacer, an object
\* at ANY depth is written with exactly the listed names it owns, in the
\* order of the list.
RECURSIVE JSONStringify(_, _)
JSONStringify(v, propertyList) ==
    IF v.kind = "string" THEN QuoteJSONString(v.str)
    ELSE LET K == SelectSeq(propertyList, LAMBDA k : HasKey(v.obj, k))
             member(k) == <<DQ, k, DQ, ":">> \o JSONStringify(Get(v.obj, k), propertyList)
         IN  <<"{">> \o Join([k \in 1..Len(K) |-> member(K[k])]) \o <<"}">>

\* ------------------------------------------------------------ crypto-utils
\* keccak256 as an injective digest, a string of one atom: "0x[", the atoms
\* of the input separated by "|", and "]".  No atom of an input holds a
\* bracket or a bar other than a digest's own, which are balanced, so two
\* inputs with the same digest are the same; no digest holds DQ or BS bare.
RECURSIVE Glue(_)
Glue(data) ==
    IF data = <<>> THEN ""
    ELSE IF Len(data) = 1 THEN data[1]
    ELSE LET h == Len(data) \div 2
         IN  Glue(SubSeq(data, 1, h)) \o "|" \o Glue(SubSeq(data, h + 1, Len(data)))
createHash(data) == << "0x[" \o Glue(data) \o "]" >>

\* fault variant: the keys are not sorted
serializePayloadUnsorted(payload) == JSONStringify(ObjVal(payload), ObjectKeys(payload))
serializePayload(payload) == JSONStringify(ObjVal(payload), Sort(ObjectKeys(payload)))

\* A signature record is built as { signerId, signature, signedAt, signedHash }.
SignatureObject(sig) ==
    << Entry("signerId", StrVal(sig.signerId)),
       Entry("signature", StrVal(sig.signature)),
       Entry("signedAt", StrVal(sig.signedAt)),
       Entry("signedHash", StrVal(sig.signedHash)) >>

\* fault variant: a fixed key list that misses signedAt
serializeSignatureWithoutSignedAt(sig) ==
    JSONStringify(ObjVal(SignatureObject(sig)), <<"signature", "signedHash", "signerId">>)
serializeSignature(sig) ==
    LET sortedKeys == Sort(ObjectKeys(SignatureObject(sig)))
    IN  JSONStringify(ObjVal(SignatureObject(sig)), sortedKeys)

\* a signature record that is absent: null or undefined in the list
NullRecord == [absent |-> TRUE]
\* Object.keys(signature), line 30, throws a TypeError on null or undefined
serializeSignatureThrows(sig) == sig = NullRecord
\* the loop of lines 44-46 lets serializeSignature's exception out
calculateExpectedHashThrows(payload, previousSignatures) ==
    \E k \in 1..Len(previousSignatures) : serializeSignatureThrows(previousSignatures[k])

\* lines 41-46: the string handed to createHash
DataToHash(payload, previousSignatures) ==
    serializePayload(payload)
    \o Flatten([k \in 1..Len(previousSignatures) |->
                    serializeSignature(previousSignatures[k])])

\* fault variant: the prior signatures are left out of the hash
calculateExpectedHashPayloadOnly(payload, previousSignatures) ==
    createHash(serializePayload(payload))
calculateExpectedHash(payload, previousSignatures) ==
    createHash(DataToHash(payload, previousSignatures))

\* The wallets of the test data generator; a signer's id is the wallet's name.
Wallets == {"alice", "bob"}
SignerId(wallet) == <<wallet>>
\* wallet.address is checksummed (mixed case); the same address in lower case
Address(wallet) == "0xADDR" \o wallet
toLowerCase(address) ==
    IF \E w \in Wallets : address = Address(w)
    THEN "0xaddr" \o (CHOOSE w \in Wallets : address = Address(w))
    ELSE address
\* what recovery yields for a well-formed signature over another message:
\* the address of a key nobody holds
StrayAddress == "0xADDRstray"

\* wallet.signMessage(message): binds the wallet's key and the message
signMessage(message, wallet) == <<"0xsig", wallet>> \o message

\* ethers.recoverAddress throws on bytes that are no signature
RecoverThrows(signature) ==
    ~(Len(signature) >= 2 /\ signature[1] = "0xsig" /\ signature[2] \in Wallets)
recoverAddress(message, signature) ==
    IF SubSeq(signature, 3, Len(signature)) = message
    THEN Address(signature[2])
    ELSE StrayAddress

\* fault variant: no catch block
verifySignatureThrowsUncaught(message, signature, expectedAddress) ==
    RecoverThrows(signature)
\* lines 59 and 64-66: whether an exception leaves verifySignature; the try
\* block spans the body and the catch block takes every exception
verifySignatureThrows(message, signature, expectedAddress) ==
    LET thrownInTry == RecoverThrows(signature)
        caught == thrownInTry
    IN  thrownInTry /\ ~caught

\* fault variant: whatever recovers to an address is accepted
verifySignatureAnyKey(message, signature, expectedAddress) ==
    IF RecoverThrows(signature) THEN FALSE
    ELSE recoverAddress(message, signature) \in {Address(w) : w \in Wallets} \cup {StrayAddress}
\* fault variant: the addresses are compared as written
verifySignatureCaseSensitive(message, signature, expectedAddress) ==
    IF RecoverThrows(signature) THEN FALSE
    ELSE recoverAddress(message, signature) = expectedAddress
verifySignature(message, signature, expectedAddress) ==
    IF RecoverThrows(signature) THEN FALSE
    ELSE toLowerCase(recoverAddress(message, signature)) = toLowerCase(expectedAddress)

\* ---------------------------------------------------------------- traversal
\* signerRegistry[signerId]: undefined (no entry) reads as the empty string,
\* which `!signerAddress` treats the same way
Lookup(registry, signerId) ==
    IF signerId \in DOMAIN registry THEN registry[signerId] ELSE ""

NotFoundError(signerId) == <<"Signer ">> \o signerId \o <<" not found in registry">>
HashChainError(expected, got) ==
    <<"Hash chain broken: expected ">> \o expected \o <<", got ">> \o got
InvalidSignatureError(signerId) == <<"Invalid cryptographic signature for ">> \o signerId
ChainBrokenError(signerId) == <<"Signature chain broken at signer: ">> \o signerId
NoSignaturesError == <<"Document has no signatures">>
NoPayloadError == <<"Document has no payload">>

SigResult(signerId, isValid, hashChainValid, signatureValid, hasError, error) ==
    [signerId |-> signerId, isValid |-> isValid, hashChainValid |-> hashChainValid,
     signatureValid |-> signatureValid, hasError |-> hasError, error |-> error]

\* how a call of verifySignatureAtIndex ends: it returns .result after the
\* steps in .checks, or an exception leaves it after (or in) those steps
Returned(sigResult, checks) == [threw |-> FALSE, result |-> sigResult, checks |-> checks]
Thrown(checks) == [threw |-> TRUE, checks |-> checks]

\* fault variant: the signature is verified whatever the hash comparison gave
verifySignatureAtIndexNoShortCircuit(payload, signature, previousSignatures, registry) ==
    IF signature = NullRecord THEN Thrown({})
    ELSE
    LET signerAddress == Lookup(registry, signature.signerId)
        expectedHash == calculateExpectedHash(payload, previousSignatures)
        hashChainValid == expectedHash = signature.signedHash
        signatureValid ==
            verifySignature(signature.signedHash, signature.signature, signerAddress)
    IN  IF signerAddress = ""
        THEN Returned(SigResult(signature.signerId, FALSE, FALSE, FALSE, TRUE,
                                NotFoundError(signature.signerId)),
                      {"lookup"})
        ELSE IF calculateExpectedHashThrows(payload, previousSignatures)
        THEN Thrown({"lookup", "hash"})
        ELSE IF verifySignatureThrows(signature.signedHash, signature.signature,
                                      signerAddress)
        THEN Thrown({"lookup", "hash", "verify"})
        ELSE IF ~hashChainValid
        THEN Returned(SigResult(signature.signerId, FALSE, FALSE, signatureValid, TRUE,
                                HashChainError(expectedHash, signature.signedHash)),
                      {"lookup", "hash", "verify"})
        ELSE IF ~signatureValid
        THEN Returned(SigResult(signature.signerId, FALSE, TRUE, FALSE, TRUE,
                                InvalidSignatureError(signature.signerId)),
                      {"lookup", "hash", "verify"})
        ELSE Returned(SigResult(signature.signerId, TRUE, TRUE, TRUE, FALSE, <<>>),
                      {"lookup", "hash", "verify"})

\* fault variant: a missing signer does not end the check of the entry
verifySignatureAtIndexNoEarlyReturn(payload, signature, previousSignatures, registry) ==
    IF signature = NullRecord THEN Thrown({})
    ELSE
    LET signerAddress == Lookup(registry, signature.signerId)
        expectedHash == calculateExpectedHash(payload, previousSignatures)
        hashChainValid == expectedHash = signature.signedHash
        signatureValid ==
            verifySignature(signature.signedHash, signature.signature, signerAddress)
    IN  IF calculateExpectedHashThrows(payload, previousSignatures)
        THEN Thrown({"lookup", "hash"})
        ELSE IF ~hashChainValid
        THEN Returned(SigResult(signature.signerId, FALSE, FALSE, FALSE, TRUE,
                                HashChainError(expectedHash, signature.signedHash)),
                      {"lookup", "hash"})
        ELSE IF verifySignatureThrows(signature.signedHash, signature.signature,
                                      signerAddress)
        THEN Thrown({"lookup", "hash", "verify"})
        ELSE IF ~signatureValid
        THEN Returned(SigResult(signature.signerId, FALSE, TRUE, FALSE, TRUE,
                                IF signerAddress = ""
                                THEN NotFoundError(signature.signerId)
                                ELSE InvalidSignatureError(signature.signerId)),
                      {"lookup", "hash", "verify"})
        ELSE Returned(SigResult(signature.signerId, TRUE, TRUE, TRUE, FALSE, <<>>),
                      {"lookup", "hash", "verify"})

\* verifySignatureAtIndex, lines 79-128; `signature.signerId` of line 86
\* throws a TypeError on an absent record
verifySignatureAtIndex(payload, signature, previousSignatures, registry) ==
    IF signature = NullRecord THEN Thrown({})
    ELSE
    LET signerAddress == Lookup(registry, signature.signerId)
        expectedHash == calculateExpectedHash(payload, previousSignatures)
        hashChainValid == expectedHash = signature.signedHash
        signatureValid ==
            verifySignature(signature.signedHash, signature.signature, signerAddress)
    IN  IF signerAddress = ""
        THEN Returned(SigResult(signature.signerId, FALSE, FALSE, FALSE, TRUE,
                                NotFoundError(signature.signerId)),
                      {"lookup"})
        ELSE IF calculateExpectedHashThrows(payload, previousSignatures)
        THEN Thrown({"lookup", "hash"})
        ELSE IF ~hashChainValid
        THEN Returned(SigResult(signature.signerId, FALSE, FALSE, FALSE, TRUE,
                                HashChainError(expectedHash, signature.signedHash)),
                      {"lookup", "hash"})
        ELSE IF verifySignatureThrows(signature.signedHash, signature.signature,
                                      signerAddress)
        THEN Thrown({"lookup", "hash", "verify"})
        ELSE IF ~signatureValid
        THEN Returned(SigResult(signature.signerId, FALSE, TRUE, FALSE, TRUE,
                                InvalidSignatureError(signature.signerId)),
                      {"lookup", "hash", "verify"})
        ELSE Returned(SigResult(signature.signerId, TRUE, TRUE, TRUE, FALSE, <<>>),
                      {"lookup", "hash", "verify"})

Verification(isValid, hasError, error, signatureResults) ==
    [isValid |-> isValid, hasError |-> hasError, error |-> error,
     signatureResults |-> signatureResults]

\* fault variant: the payload is checked before the signatures
TraverseBeginPayloadFirst ==
    /\ pc \in {"signing", "tampered"}
    /\ IF ~document.hasPayload
       THEN /\ result' = Verification(FALSE, TRUE, NoPayloadError, <<>>)
            /\ pc' = "done"
            /\ UNCHANGED <<i, calls>>
       ELSE IF document.isNull \/ ~document.hasSignatures \/ Len(document.signatures) = 0
       THEN /\ result' = Verification(FALSE, TRUE, NoSignaturesError, <<>>)
            /\ pc' = "done"
            /\ UNCHANGED <<i, calls>>
       ELSE /\ result' = Verification(TRUE, FALSE, <<>>, <<>>)
            /\ i' = Len(document.signatures)
            /\ calls' = [k \in 1..Len(document.signatures) |-> {}]
            /\ pc' = "loop"
    /\ UNCHANGED <<document, signerRegistry, signed, tampers, binderVars>>

\* fault variant: the payload is not checked
TraverseBeginNoPayloadCheck ==
    /\ pc \in {"signing", "tampered"}
    /\ IF document.isNull \/ ~document.hasSignatures \/ Len(document.signatures) = 0
       THEN /\ result' = Verification(FALSE, TRUE, NoSignaturesError, <<>>)
            /\ pc' = "done"
            /\ UNCHANGED <<i, calls>>
       ELSE /\ result' = Verification(TRUE, FALSE, <<>>, <<>>)
            /\ i' = Len(document.signatures)
            /\ calls' = [k \in 1..Len(document.signatures) |-> {}]
            /\ pc' = "loop"
    /\ UNCHANGED <<document, signerRegistry, signed, tampers, binderVars>>

\* traverse, lines 24-48: the result object, the two structural checks
TraverseBegin ==
    /\ pc \in {"signing", "tampered"}
    /\ IF document.isNull \/ ~document.hasSignatures \/ Len(document.signatures) = 0
       THEN /\ result' = Verification(FALSE, TRUE, NoSignaturesError, <<>>)
            /\ pc' = "done"
            /\ UNCHANGED <<i, calls>>
       ELSE IF ~document.hasPayload
       THEN /\ result' = Verification(FALSE, TRUE, NoPayloadError, <<>>)
            /\ pc' = "done"
            /\ UNCHANGED <<i, calls>>
       ELSE /\ result' = Verification(TRUE, FALSE, <<>>, <<>>)
            /\ i' = Len(document.signatures)
            /\ calls' = [k \in 1..Len(document.signatures) |-> {}]
            /\ pc' = "loop"
    /\ UNCHANGED <<document, signerRegistry, signed, tampers, binderVars>>

\* fault variant: push instead of unshift
Push(list, sigResult) == Append(list, sigResult)
\* line 62: result.signatureResults.unshift(sigResult)
Unshift(list, sigResult) == <<sigResult>> \o list

\* fault variant: a failure sets the error and leaves isValid as it was
LatchErrorOnly(res, sigResult, currentSignature) ==
    IF sigResult.isValid THEN res
    ELSE [res EXCEPT !.hasError = TRUE,
                     !.error = IF res.hasError THEN res.error
                               ELSE ChainBrokenError(currentSignature.signerId)]
\* fault variant: every failure overwrites the error
LatchLastError(res, sigResult, currentSignature) ==
    IF sigResult.isValid THEN res
    ELSE [res EXCEPT !.isValid = FALSE,
                     !.hasError = TRUE,
                     !.error = ChainBrokenError(currentSignature.signerId)]
\* lines 65-70: the chain is invalid, and the first error set stays
Latch(res, sigResult, currentSignature) ==
    IF sigResult.isValid THEN res
    ELSE [res EXCEPT !.isValid = FALSE,
                     !.hasError = TRUE,
                     !.error = IF res.hasError THEN res.error
                               ELSE ChainBrokenError(currentSignature.signerId)]

\* fault variant: the slice runs to the end of the list
sliceToEnd(list, start, end) == SubSeq(list, start + 1, Len(list))
\* Array.prototype.slice(start, end): the elements at the 0-based positions
\* start .. end - 1
slice(list, start, end) == SubSeq(list, start + 1, end)

\* fault variant: once an entry has failed, the entries before it are not
\* checked and are reported as failed
TraverseIterateAfterFailure ==
    /\ pc = "loop"
    /\ i >= 1
    /\ LET currentSignature == document.signatures[i]
           previousSignatures == slice(document.signatures, 0, i - 1)
           checked == verifySignatureAtIndex(document.payload, currentSignature,
                                             previousSignatures, signerRegistry)
           v == IF result.hasError /\ currentSignature # NullRecord
                THEN Returned(SigResult(currentSignature.signerId, FALSE, FALSE, FALSE,
                                        TRUE, result.error), {})
                ELSE checked
           unshifted == [result EXCEPT !.signatureResults = Unshift(@, v.result)]
       IN  /\ calls' = [calls EXCEPT ![i] = v.checks]
           /\ IF v.threw
              THEN /\ pc' = "thrown"
                   /\ UNCHANGED <<i, result>>
              ELSE /\ result' = Latch(unshifted, v.result, currentSignature)
                   /\ i' = i - 1
                   /\ pc' = pc
    /\ UNCHANGED <<document, signerRegistry, signed, tampers, binderVars>>

\* traverse, lines 50-71: one iteration of the loop, last signature first;
\* an exception of verifySignatureAtIndex ends traverse without a result
TraverseIterate ==
    /\ pc = "loop"
    /\ i >= 1
    /\ LET currentSignature == document.signatures[i]
           previousSignatures == slice(document.signatures, 0, i - 1)
           v == verifySignatureAtIndex(document.payload, currentSignature,
                                       previousSignatures, signerRegistry)
           unshifted == [result EXCEPT !.signatureResults = Unshift(@, v.result)]
       IN  /\ calls' = [calls EXCEPT ![i] = v.checks]
           /\ IF v.threw
              THEN /\ pc' = "thrown"
                   /\ UNCHANGED <<i, result>>
              ELSE /\ result' = Latch(unshifted, v.result, currentSignature)
                   /\ i' = i - 1
                   /\ pc' = pc
    /\ UNCHANGED <<document, signerRegistry, signed, tampers, binderVars>>

\* traverse, line 73
TraverseReturn ==
    /\ pc = "loop"
    /\ i = 0
    /\ pc' = "done"
    /\ UNCHANGED <<document, signerRegistry, i, result, calls, signed, tampers, binderVars>>

\* ------------------------------------------------------- signing, tampering
Signature(signerId, signature, signedAt, signedHash) ==
    [signerId |-> signerId, signature |-> signature,
     signedAt |-> signedAt, signedHash |-> signedHash]

\* new Date(Date.now() + signatures.length * 90 min).toISOString()
SignedAt(n) == <<"T" \o ToString(n)>>

\* generateValidDocument, lines 251-270: the next signer signs the expected
\* hash of the payload and of all the signatures so far
Sign(wallet) ==
    /\ pc = "signing"
    /\ ~document.isNull /\ document.hasSignatures /\ document.hasPayload
    /\ Len(document.signatures) < MaxSigs
    /\ LET previousSignatures == document.signatures
           expectedHash == calculateExpectedHash(document.payload, previousSignatures)
           signatureObj == Signature(SignerId(wallet), signMessage(expectedHash, wallet),
                                     SignedAt(Len(previousSignatures)), expectedHash)
       IN  /\ document' = [document EXCEPT !.signatures = Append(@, signatureObj)]
           /\ signed' = [signed EXCEPT !.signatures = Append(@, signatureObj)]
    /\ UNCHANGED <<signerRegistry, pc, i, result, calls, tampers, binderVars>>

Tamper(kind, idx, field) == [kind |-> kind, idx |-> idx, field |-> field]
Tampered(kind) == \E t \in tampers : t.kind = kind
CanTamper(kind) ==
    /\ pc \in {"signing", "tampered"}
    /\ ~document.isNull /\ document.hasSignatures
    /\ Len(document.signatures) >= 1
    /\ ~Tampered(kind)

\* s.replace('a', 'b'): another string of the same alphabet
Corrupt(s) == [s EXCEPT ![Len(s)] = @ \o "b"]

\* the values a field of the payload is changed to
PayloadChange(payload, key) ==
    IF Get(payload, key).kind = "string"
    THEN StrVal(<<"x">>)
    ELSE ObjVal([k \in 1..Len(Get(payload, key).obj) |->
                    Entry(Get(payload, key).obj[k].key, StrVal(<<"x">>))])

\* generateDocumentWithTamperedPayload, lines 281-288
TamperPayload(key) ==
    /\ CanTamper("payload")
    /\ document.hasPayload
    /\ HasKey(document.payload, key)
    /\ document' = [document EXCEPT
                        !.payload = Put(@, key, PayloadChange(document.payload, key))]
    /\ tampers' = tampers \cup {Tamper("payload", 0, key)}
    /\ pc' = "tampered"
    /\ UNCHANGED <<signerRegistry, i, result, calls, signed, binderVars>>

\* 'should handle documents with no payload', lines 53-62: payload: null
DropPayload ==
    /\ CanTamper("payload")
    /\ document.hasPayload
    /\ document' = [document EXCEPT !.hasPayload = FALSE, !.payload = <<>>]
    /\ tampers' = tampers \cup {Tamper("payload", 0, "null")}
    /\ pc' = "tampered"
    /\ UNCHANGED <<signerRegistry, i, result, calls, signed, binderVars>>

\* the values a field of signature record k is changed to
RecordChanges(sig, field) ==
    CASE field = "signature" -> {Corrupt(sig.signature), <<"not-a-signature">>}
      [] field = "signedHash" -> {Corrupt(sig.signedHash)}
      [] field = "signerId" -> {SignerId(w) : w \in Wallets} \ {sig.signerId}
      [] field = "signedAt" -> {Corrupt(sig.signedAt)}

SetField(sig, field, value) ==
    CASE field = "signature" -> [sig EXCEPT !.signature = value]
      [] field = "signedHash" -> [sig EXCEPT !.signedHash = value]
      [] field = "signerId" -> [sig EXCEPT !.signerId = value]
      [] field = "signedAt" -> [sig EXCEPT !.signedAt = value]

\* generateDocumentWithInvalidSignature and -WithBrokenHashChain, lines
\* 293-316: one field of one record is overwritten
TamperRecord(k, field, value) ==
    /\ CanTamper("record")
    /\ k \in 1..Len(document.signatures)
    /\ value \in RecordChanges(document.signatures[k], field)
    /\ document' = [document EXCEPT
                        !.signatures[k] = SetField(document.signatures[k], field, value)]
    /\ tampers' = tampers \cup {Tamper("record", k, field)}
    /\ pc' = "tampered"
    /\ UNCHANGED <<signerRegistry, i, result, calls, signed, binderVars>>

\* a record of the list replaced by null
NullifyRecord(k) ==
    /\ CanTamper("record")
    /\ k \in 1..Len(document.signatures)
    /\ document' = [document EXCEPT !.signatures[k] = NullRecord]
    /\ tampers' = tampers \cup {Tamper("record", k, "null")}
    /\ pc' = "tampered"
    /\ UNCHANGED <<signerRegistry, i, result, calls, signed, binderVars>>

\* the list cut after its first k records
Truncate(k) ==
    /\ CanTamper("record")
    /\ k \in 1..(Len(document.signatures) - 1)
    /\ document' = [document EXCEPT !.signatures = SubSeq(@, 1, k)]
    /\ signed' = [signed EXCEPT
                     !.removed = SubSeq(document.signatures, k + 1,
                                        Len(document.signatures))]
    /\ tampers' = tampers \cup {Tamper("record", k, "length")}
    /\ pc' = "tampered"
    /\ UNCHANGED <<signerRegistry, i, result, calls, binderVars>>

\* 'should fail when signer is not in registry', lines 117-132: a registry
\* built without one of the signers
Unregister(wallet) ==
    /\ CanTamper("registry")
    /\ SignerId(wallet) \in DOMAIN signerRegistry
    /\ signerRegistry' = [id \in DOMAIN signerRegistry \ {SignerId(wallet)} |->
                              signerRegistry[id]]
    /\ tampers' = tampers \cup {Tamper("registry", 0, wallet)}
    /\ pc' = "tampered"
    /\ UNCHANGED <<document, i, result, calls, signed, binderVars>>

\* ---------------------------------------------------------------- documents
\* the payload of generateValidDocument, and the one of the serializePayload
\* test, which carries a nested mapping
Payloads ==
    { << Entry("documentId", StrVal(<<"d">>)), Entry("content", StrVal(<<"a">>)) >>,
      << Entry("documentId", StrVal(<<"d">>)), Entry("content", StrVal(<<"a">>)),
         Entry("metadata", ObjVal(<< Entry("author", StrVal(<<"a">>)) >>)) >> }

Document(isNull, hasSignatures, hasPayload, payload) ==
    [isNull |-> isNull, hasSignatures |-> hasSignatures, signatures |-> <<>>,
     hasPayload |-> hasPayload, payload |-> payload]

\* getSignerRegistry, lines 231-237 (wallet.address), or the same addresses
\* in lower case handed to createSignerRegistry
createSignerRegistry(lower) ==
    [id \in {SignerId(w) : w \in Wallets} |->
        IF lower THEN toLowerCase(Address(id[1])) ELSE Address(id[1])]

IdleBinder ==
    /\ bmode = "off" /\ bpc = "off"
    /\ bPayload1 = <<>> /\ bPayload2 = <<>> /\ bPrior1 = <<>> /\ bPrior2 = <<>>
    /\ bData1 = <<>> /\ bData2 = <<>> /\ bHash1 = <<>> /\ bHash2 = <<>>

\* the documents the tests hand to traverse before any signing: a payload
\* with an empty signature list, and the ones that lack a part
InitialDocuments ==
    { Document(FALSE, TRUE, TRUE, p) : p \in Payloads }         \* to be signed
    \cup { Document(FALSE, FALSE, TRUE, p) : p \in Payloads }   \* no signatures field
    \cup { Document(TRUE, FALSE, FALSE, <<>>),                  \* null, undefined
           Document(FALSE, FALSE, FALSE, <<>>),                 \* {}
           Document(FALSE, TRUE, FALSE, <<>>) }                 \* payload: null

Init ==
    /\ document \in InitialDocuments
    /\ signed = [payload |-> document.payload, signatures |-> <<>>, removed |-> <<>>]
    /\ signerRegistry \in {createSignerRegistry(FALSE), createSignerRegistry(TRUE)}
    /\ pc = "signing"
    /\ i = 0
    /\ result = Verification(TRUE, FALSE, <<>>, <<>>)
    /\ calls = <<>>
    /\ tampers = {}
    /\ IdleBinder

Next ==
    \/ \E w \in Wallets : Sign(w)
    \/ \E key \in Range(KeyOrder) : TamperPayload(key)
    \/ DropPayload
    \/ /\ CanTamper("record")
       /\ \E k \in 1..Len(document.signatures), field \in {"signature", "signedHash", "signerId", "signedAt"} :
            \E value \in RecordChanges(document.signatures[k], field) :
               TamperRecord(k, field, value)
    \/ \E k \in 1..Len(document.signatures) : NullifyRecord(k)
    \/ \E k \in 1..Len(document.signatures) : Truncate(k)
    \/ \E w \in Wallets : Unregister(w)
    \/ TraverseBegin
    \/ TraverseIterate
    \/ TraverseReturn

Spec == Init /\ [][Next]_vars

\* ------------------------------------------------------------ binder runs
\* calculateExpectedHash applied to two inputs: two payloads under one
\* prior-signature sequence ("payloads"), or one payload under two
\* prior-signature sequences ("priors").
MetaObjects ==
    { << Entry("author", StrVal(<<"a">>)) >>,
      << Entry("author", StrVal(<<"b">>)) >>,
      << Entry("content", StrVal(<<"a">>)) >>,
      << Entry("author", StrVal(<<"a">>)), Entry("content", StrVal(<<"b">>)) >>,
      << Entry("content", StrVal(<<"b">>)), Entry("author", StrVal(<<"a">>)) >> }

BinderPayloads ==
    LET D == Entry("documentId", StrVal(<<"d">>))
        C(c) == Entry("content", StrVal(c))
        M(m) == Entry("metadata", ObjVal(m))
        Contents == { <<"a">>, <<"a", DQ>> }
    IN  UNION { { <<D, C(c)>>, <<C(c), D>> } : c \in Contents }
        \cup UNION { { <<D, C(c), M(m)>>, <<M(m), C(c), D>>, <<C(c), M(m), D>> } :
                        c \in Contents, m \in MetaObjects }

BinderRecords ==
    LET r == Signature(<<"alice">>, <<"s">>, <<"t">>, <<"h">>)
    IN  { r,
          [r EXCEPT !.signerId = <<"bob">>],
          [r EXCEPT !.signature = <<"s", DQ>>],
          [r EXCEPT !.signedAt = <<"t", BS>>],
          [r EXCEPT !.signedHash = <<"g">>] }

SharedRecords ==
    { Signature(<<"alice">>, <<"s">>, <<"t">>, <<"h">>),
      Signature(<<"bob">>, <<"s", DQ>>, <<"t">>, <<"g">>) }

IdleVerifier ==
    /\ document = Document(TRUE, FALSE, FALSE, <<>>)
    /\ signed = [payload |-> <<>>, signatures |-> <<>>, removed |-> <<>>]
    /\ signerRegistry = createSignerRegistry(FALSE)
    /\ pc = "off" /\ i = 0 /\ calls = <<>> /\ tampers = {}
    /\ result = Verification(TRUE, FALSE, <<>>, <<>>)

BinderInit ==
    /\ bmode \in {"payloads", "priors"}
    /\ bPayload1 \in BinderPayloads
    /\ bPayload2 \in BinderPayloads
    /\ bmode = "priors" => bPayload1 \in Payloads /\ bPayload2 = bPayload1
    /\ bPrior1 = <<>> /\ bPrior2 = <<>>
    /\ bData1 = <<>> /\ bData2 = <<>> /\ bHash1 = <<>> /\ bHash2 = <<>>
    /\ bpc = "input"
    /\ IdleVerifier

\* one more prior signature, the same under both payloads
BinderAppendBoth(r) ==
    /\ bmode = "payloads" /\ bpc = "input"
    /\ Len(bPrior1) < MaxPrior
    /\ bPrior1' = Append(bPrior1, r)
    /\ bPrior2' = Append(bPrior2, r)
    /\ UNCHANGED <<bmode, bPayload1, bPayload2, bData1, bData2, bHash1, bHash2, bpc,
                   verifierVars>>

BinderAppendFirst(r) ==
    /\ bmode = "priors" /\ bpc = "input"
    /\ Len(bPrior1) < MaxPrior
    /\ bPrior1' = Append(bPrior1, r)
    /\ UNCHANGED <<bmode, bPayload1, bPayload2, bPrior2, bData1, bData2, bHash1, bHash2,
                   bpc, verifierVars>>

BinderAppendSecond(r) ==
    /\ bmode = "priors" /\ bpc = "input"
    /\ Len(bPrior2) < MaxPrior
    /\ bPrior2' = Append(bPrior2, r)
    /\ UNCHANGED <<bmode, bPayload1, bPayload2, bPrior1, bData1, bData2, bHash1, bHash2,
                   bpc, verifierVars>>

\* calculateExpectedHash on both inputs
BinderHash ==
    /\ bpc = "input"
    /\ bData1' = DataToHash(bPayload1, bPrior1)
    /\ bData2' = DataToHash(bPayload2, bPrior2)
    /\ bHash1' = calculateExpectedHash(bPayload1, bPrior1)
    /\ bHash2' = calculateExpectedHash(bPayload2, bPrior2)
    /\ bpc' = "hashed"
    /\ UNCHANGED <<bmode, bPayload1, bPayload2, bPrior1, bPrior2, verifierVars>>

BinderNext ==
    \/ \E r \in SharedRecords : BinderAppendBoth(r)
    \/ \E r \in BinderRecords : BinderAppendFirst(r)
    \/ \E r \in BinderRecords : BinderAppendSecond(r)
    \/ BinderHash

BinderSpec == BinderInit /\ [][BinderNext]_vars

\* ------------------------------------------------------------------ claims
\* two values are the same mapping: the same string, or objects with the
\* same field names and the same value under each (whatever the order)
RECURSIVE SameValue(_, _)
SameValue(v1, v2) ==
    /\ v1.kind = v2.kind
    /\ v1.kind = "string" => v1.str = v2.str
    /\ v1.kind = "object" =>
          /\ Range(ObjectKeys(v1.obj)) = Range(ObjectKeys(v2.obj))
          /\ \A key \in Range(ObjectKeys(v1.obj)) :
                SameValue(Get(v1.obj, key), Get(v2.obj, key))

DiffersInAField(p1, p2) ==
    \E key \in Range(ObjectKeys(p1)) \cap Range(ObjectKeys(p2)) :
        ~SameValue(Get(p1, key), Get(p2, key))

\* C4: two payloads that differ in the value of a field (a nested mapping's
\* field included), under the same prior signatures, feed different strings
\* to the hash primitive and get different expected hashes.
C4_SensitiveToEveryField ==
    (bpc = "hashed" /\ bmode = "payloads" /\ DiffersInAField(bPayload1, bPayload2))
        => (bData1 # bData2 /\ bHash1 # bHash2)

\* C5: two payloads with the same field names and values, built in
\* different field orders, serialize to the same string and get the same
\* expected hash under the same prior signatures.
C5_FieldOrderInvariant ==
    (bpc = "hashed" /\ bmode = "payloads"
        /\ SameValue(ObjVal(bPayload1), ObjVal(bPayload2)))
        => /\ serializePayload(bPayload1) = serializePayload(bPayload2)
           /\ bData1 = bData2
           /\ bHash1 = bHash2

C5_Witness ==
    /\ bpc = "hashed" /\ bmode = "payloads"
    /\ SameValue(ObjVal(bPayload1), ObjVal(bPayload2))
    /\ ObjectKeys(bPayload1) # ObjectKeys(bPayload2)
    /\ HasKey(bPayload1, "metadata")
    /\ Get(bPayload1, "metadata") # Get(bPayload2, "metadata")
    /\ Len(bPrior1) = MaxPrior
    /\ bHash1 = bHash2

\* C6: one payload under two different prior-signature sequences (another
\* length, another order, another value of a field of a record) gets two
\* different expected hashes.
C6_PriorSequenceSensitive ==
    (bpc = "hashed" /\ bmode = "priors" /\ bPrior1 # bPrior2) => bHash1 # bHash2

C6_Witness ==
    /\ bpc = "hashed" /\ bmode = "priors"
    /\ Len(bPrior1) = 2 /\ bPrior1[1] # bPrior1[2]
    /\ bPrior2 = <<bPrior1[2], bPrior1[1]>>
    /\ bPrior1[1].signedAt # bPrior1[2].signedAt
    /\ bHash1 # bHash2

\* ------------------------------------------------- claims about traverse
Signatures == document.signatures
NumSigs == Len(document.signatures)
\* traverse has returned, and both structural checks had passed
Traversed ==
    /\ pc = "done"
    /\ ~document.isNull /\ document.hasSignatures /\ document.hasPayload
    /\ NumSigs >= 1
\* the document is as the signers built it and every signer is registered
Untampered == tampers = {}
\* nothing happened after signing but the change of one payload field
PayloadMutated ==
    \E key \in Range(KeyOrder) : tampers = {Tamper("payload", 0, key)}

FullyValid(r) == r.isValid /\ r.hashChainValid /\ r.signatureValid /\ ~r.hasError

\* C1: a chain of n >= 1 signatures built by the signing procedure, every
\* signer registered under their own address, verifies: isValid, no error,
\* n per-signature results, each with all three flags true.
C1_ValidChainVerifies ==
    (Traversed /\ Untampered) =>
        /\ result.isValid
        /\ ~result.hasError
        /\ Len(result.signatureResults) = NumSigs
        /\ \A k \in 1..NumSigs : FullyValid(result.signatureResults[k])

C1_Witness ==
    /\ Traversed /\ Untampered
    /\ NumSigs = MaxSigs
    /\ Signatures[1].signerId # Signatures[NumSigs].signerId
    /\ signerRegistry = createSignerRegistry(TRUE)
    /\ HasKey(document.payload, "metadata")
    /\ result.isValid

\* C2: after a change of the value of any payload field of a valid, fully
\* registered chain, traverse returns isValid = false, an error starting
\* with 'Signature chain broken', and an invalid first result whose hash
\* check failed.
C2_PayloadChangeDetected ==
    (Traversed /\ PayloadMutated) =>
        /\ ~result.isValid
        /\ result.hasError
        /\ result.error[1] = "Signature chain broken at signer: "
        /\ ~result.signatureResults[1].isValid
        /\ ~result.signatureResults[1].hashChainValid

\* C3 as stated: the top-level error reported for a payload changed after
\* signing names the FIRST signer, signatures[0].
C3_ErrorNamesFirstSigner ==
    (Traversed /\ PayloadMutated /\ result.hasError) =>
        result.error = ChainBrokenError(Signatures[1].signerId)

\* C3 as amended: the top-level error reported for a payload changed after
\* signing names the LAST signer, signatures[n-1], whose failure the reverse
\* traversal meets first; every entry has failed its hash check by then.
\* (An error is reported whenever the change shows in serializePayload.)
C3_ErrorNamesLastSigner ==
    (Traversed /\ PayloadMutated) =>
        /\ serializePayload(document.payload) # serializePayload(signed.payload)
              => result.hasError
        /\ result.hasError =>
              /\ result.error = ChainBrokenError(Signatures[NumSigs].signerId)
              /\ \A k \in 1..NumSigs : ~result.signatureResults[k].hashChainValid

C3_Witness ==
    /\ Traversed /\ PayloadMutated /\ result.hasError
    /\ NumSigs >= 2
    /\ Signatures[1].signerId # Signatures[NumSigs].signerId
    /\ result.error = ChainBrokenError(Signatures[NumSigs].signerId)

\* C7: a null document, or one whose signatures are absent or empty, gets
\* isValid = false, 'Document has no signatures' and no per-signature
\* result, and nothing is looked up, hashed or verified; so also when the
\* payload is absent too.
C7_NoSignatures ==
    (pc = "done" /\ (document.isNull \/ ~document.hasSignatures \/ NumSigs = 0)) =>
        /\ result = Verification(FALSE, TRUE, NoSignaturesError, <<>>)
        /\ calls = <<>>

C7_Witness ==
    /\ pc = "done"
    /\ ~document.isNull /\ document.hasSignatures /\ NumSigs = 0
    /\ ~document.hasPayload
    /\ result.error = NoSignaturesError

\* C8: a document with at least one signature and no payload gets
\* isValid = false, 'Document has no payload' and no per-signature result,
\* whatever the records and the registry hold, and nothing is looked up,
\* hashed or verified.
C8_NoPayload ==
    (pc = "done" /\ ~document.isNull /\ document.hasSignatures /\ NumSigs >= 1
        /\ ~document.hasPayload) =>
        /\ result = Verification(FALSE, TRUE, NoPayloadError, <<>>)
        /\ calls = <<>>

C8_Witness ==
    /\ pc = "done" /\ NumSigs >= 2 /\ ~document.hasPayload
    /\ Tampered("record") /\ Tampered("registry")
    /\ result.error = NoPayloadError

\* C9: once both structural checks pass, the result list has one entry per
\* signature, in the document's order (entry k is signature k's), whatever
\* failed on the way.
C9_CompleteChronological ==
    Traversed =>
        /\ Len(result.signatureResults) = NumSigs
        /\ \A k \in 1..NumSigs :
              result.signatureResults[k].signerId = Signatures[k].signerId

C9_Witness ==
    /\ Traversed /\ NumSigs = MaxSigs
    /\ Signatures[1].signerId # Signatures[NumSigs].signerId
    /\ ~result.signatureResults[NumSigs].isValid
    /\ ~result.signatureResults[1].isValid
    /\ result.signatureResults[1].signerId = Signatures[1].signerId

\* the registry with the signer added under their own address
RegistryWith(registry, signerId) ==
    [id \in DOMAIN registry \cup {signerId} |->
        IF id \in DOMAIN registry THEN registry[id] ELSE Address(signerId[1])]
Unregistered(k) == Signatures[k].signerId \notin DOMAIN signerRegistry
PrefixBefore(k) == SubSeq(Signatures, 1, k - 1)
NotFoundResult(k) ==
    /\ result.signatureResults[k] =
          SigResult(Signatures[k].signerId, FALSE, FALSE, FALSE, TRUE,
                    NotFoundError(Signatures[k].signerId))
    /\ calls[k] = {"lookup"}
AsWithRegistered(j, k) ==
    result.signatureResults[j] =
        verifySignatureAtIndex(document.payload, Signatures[j], PrefixBefore(j),
                               RegistryWith(signerRegistry, Signatures[k].signerId)).result

\* C10 as stated: an entry of an unregistered signer is reported not found
\* after the lookup alone, and EVERY other entry is reported as under a
\* registry that holds the missing signer.
C10_EveryOtherEntryUnaffected ==
    Traversed =>
        \A k \in 1..NumSigs : Unregistered(k) =>
            /\ NotFoundResult(k)
            /\ \A j \in 1..NumSigs \ {k} : AsWithRegistered(j, k)

\* C10 as amended: an entry of an unregistered signer is reported not found
\* after the lookup alone, and every entry of ANOTHER signer is reported as
\* under a registry that holds the missing signer.
C10_OtherSignersUnaffected ==
    Traversed =>
        \A k \in 1..NumSigs : Unregistered(k) =>
            /\ NotFoundResult(k)
            /\ \A j \in 1..NumSigs :
                  Signatures[j].signerId # Signatures[k].signerId => AsWithRegistered(j, k)

C10_Witness ==
    /\ Traversed /\ NumSigs = MaxSigs
    /\ Unregistered(NumSigs) /\ NotFoundResult(NumSigs)
    /\ \E j \in 1..NumSigs :
          /\ Signatures[j].signerId # Signatures[NumSigs].signerId
          /\ FullyValid(result.signatureResults[j])
    /\ \E j \in 1..NumSigs :
          /\ Signatures[j].signerId # Signatures[NumSigs].signerId
          /\ ~result.signatureResults[j].isValid

\* the end of the list was cut off
Truncated == \E t \in tampers : t.kind = "record" /\ t.field = "length"
\* nothing happened after signing but the change of one field of record k
RecordMutated(k, field) == tampers = {Tamper("record", k, field)}
HashBrokenResult(k) ==
    result.signatureResults[k] =
        SigResult(Signatures[k].signerId, FALSE, FALSE, FALSE, TRUE,
                  HashChainError(calculateExpectedHash(document.payload, PrefixBefore(k)),
                                 Signatures[k].signedHash))
InvalidSignatureResult(k) ==
    result.signatureResults[k] =
        SigResult(Signatures[k].signerId, FALSE, TRUE, FALSE, TRUE,
                  InvalidSignatureError(Signatures[k].signerId))

\* C11: in a valid, fully registered chain whose entry k had its signature
\* bytes replaced by a value that does not verify (signedHash untouched),
\* entry k, and no other entry, is reported with hashChainValid = true,
\* signatureValid = false and 'Invalid cryptographic signature for
\* <signerId>'; the chain is invalid and all n entries are reported (the
\* earlier ones fully valid, the later ones with a broken hash chain, since
\* record k is part of what they hash).
C11_CorruptedSignatureReported ==
    Traversed =>
        \A k \in 1..NumSigs : RecordMutated(k, "signature") =>
            /\ InvalidSignatureResult(k)
            /\ \A j \in 1..NumSigs \ {k} :
                  /\ ~(result.signatureResults[j].hashChainValid
                          /\ ~result.signatureResults[j].signatureValid)
                  /\ result.signatureResults[j].error
                        # InvalidSignatureError(Signatures[j].signerId)
            /\ \A j \in 1..(k - 1) : FullyValid(result.signatureResults[j])
            /\ \A j \in (k + 1)..NumSigs : HashBrokenResult(j)
            /\ ~result.isValid
            /\ Len(result.signatureResults) = NumSigs

C11_Witness ==
    /\ Traversed /\ NumSigs = MaxSigs
    /\ RecordMutated(2, "signature")
    /\ ~RecoverThrows(Signatures[2].signature)
    /\ InvalidSignatureResult(2)
    /\ FullyValid(result.signatureResults[1])
    /\ ~result.signatureResults[NumSigs].hashChainValid

\* C12: in a valid, fully registered chain whose entry k had its recorded
\* signedHash changed, entry k is reported with hashChainValid = false,
\* signatureValid = false (the signature check is not made) and 'Hash chain
\* broken: expected <recomputed>, got <recorded>'; every later entry fails
\* its hash check too, every earlier entry stays fully valid.
C12_BrokenHashReported ==
    Traversed =>
        \A k \in 1..NumSigs : RecordMutated(k, "signedHash") =>
            /\ HashBrokenResult(k)
            /\ result.signatureResults[k].error =
                  HashChainError(signed.signatures[k].signedHash, Signatures[k].signedHash)
            /\ calls[k] = {"lookup", "hash"}
            /\ \A j \in (k + 1)..NumSigs : ~result.signatureResults[j].hashChainValid
            /\ \A j \in 1..(k - 1) : FullyValid(result.signatureResults[j])

C12_Witness ==
    /\ Traversed /\ NumSigs = MaxSigs
    /\ RecordMutated(2, "signedHash")
    /\ HashBrokenResult(2)
    /\ Signatures[2].signedHash # signed.signatures[2].signedHash
    /\ FullyValid(result.signatureResults[1])
    /\ ~result.signatureResults[NumSigs].hashChainValid

\* the indices traverse reported as invalid, and the highest of them
InvalidIndices ==
    {k \in 1..Len(result.signatureResults) : ~result.signatureResults[k].isValid}
HighestInvalid == CHOOSE k \in InvalidIndices : \A j \in InvalidIndices : j <= k

\* C13: the top-level error is set at most once, by the first invalid
\* signature the reverse traversal meets, and no later step changes it; so
\* what traverse returns when several signatures are invalid is 'Signature
\* chain broken at signer: <signerId>' of the invalid signature with the
\* highest index.
C13_FirstErrorLatch ==
    [][ /\ result.hasError => (result'.hasError /\ result'.error = result.error)
        /\ (pc = "loop" /\ ~result.hasError /\ result'.hasError) =>
              /\ ~result'.signatureResults[1].isValid
              /\ \A k \in 2..Len(result'.signatureResults) :
                    result'.signatureResults[k].isValid
              /\ result'.error = ChainBrokenError(Signatures[i].signerId)
        /\ (Traversed' /\ InvalidIndices' # {}) =>
              result'.error = ChainBrokenError(Signatures[HighestInvalid].signerId)'
      ]_vars

C13_Witness ==
    /\ Traversed
    /\ Cardinality(InvalidIndices) >= 2
    /\ \E k \in InvalidIndices :
          Signatures[k].signerId # Signatures[HighestInvalid].signerId
    /\ result.error = ChainBrokenError(Signatures[HighestInvalid].signerId)

\* C14: what traverse returns is valid exactly when the document has at
\* least one signature and a payload and every per-signature result is
\* valid, and it carries a top-level error exactly when it is not valid.
C14_ValidIffAllValid ==
    pc = "done" =>
        /\ result.isValid <=>
              /\ ~document.isNull /\ document.hasSignatures /\ NumSigs >= 1
              /\ document.hasPayload
              /\ Len(result.signatureResults) = NumSigs
              /\ \A k \in 1..NumSigs : result.signatureResults[k].isValid
        /\ ~result.hasError <=> result.isValid

C14_Witness ==
    /\ Traversed
    /\ ~result.isValid /\ result.hasError
    /\ \E k \in 1..NumSigs : result.signatureResults[k].isValid
    /\ Cardinality(InvalidIndices) = 1
    /\ HighestInvalid < NumSigs

\* C15: in a valid, fully registered chain, a change of any one field
\* (signerId, signature, signedAt, signedHash) of any one record, the last
\* record included, makes traverse return isValid = false.
C15_AnyRecordChangeDetected ==
    Traversed =>
        \A k \in 1..NumSigs :
            \A field \in {"signerId", "signature", "signedAt", "signedHash"} :
                RecordMutated(k, field) => ~result.isValid

\* C16: in every per-signature result, isValid is hashChainValid and
\* signatureValid together; signatureValid implies hashChainValid, the
\* signature being verified only after the hash comparison succeeded; and
\* the result carries an error exactly when it is not valid.
C16_EntryFlagsConsistent ==
    /\ \A k \in 1..Len(result.signatureResults) :
          LET r == result.signatureResults[k]
          IN  /\ r.isValid <=> (r.hashChainValid /\ r.signatureValid)
              /\ r.signatureValid => r.hashChainValid
              /\ r.hasError <=> ~r.isValid
    /\ Traversed =>
          \A k \in 1..NumSigs :
              "verify" \in calls[k] => result.signatureResults[k].hashChainValid

\* an entry whose hash check failed although its signature is a good one
C16_Witness ==
    /\ Traversed /\ NumSigs >= 2
    /\ \E k \in 1..NumSigs :
          /\ ~result.signatureResults[k].hashChainValid
          /\ ~result.signatureResults[k].signatureValid
          /\ result.signatureResults[k].hasError
          /\ Signatures[k].signerId \in DOMAIN signerRegistry
          /\ verifySignature(Signatures[k].signedHash, Signatures[k].signature,
                             signerRegistry[Signatures[k].signerId])
    /\ \E k \in 1..NumSigs : FullyValid(result.signatureResults[k])

\* entry k passed lookup and hash comparison, and recovery throws on its bytes
RecoveryFails(k) ==
    /\ Signatures[k] # NullRecord
    /\ RecoverThrows(Signatures[k].signature)
    /\ Signatures[k].signerId \in DOMAIN signerRegistry
    /\ ~calculateExpectedHashThrows(document.payload, PrefixBefore(k))
    /\ Signatures[k].signedHash = calculateExpectedHash(document.payload, PrefixBefore(k))
\* the entries the loop has been through: the result of index k is entry
\* k - i of the list collected so far
Visited == IF pc \in {"loop", "done"} THEN (i + 1)..NumSigs ELSE {}

\* C17: an exception of the recovery primitive never leaves traverse: an
\* entry on whose signature bytes recovery throws is reported with
\* hashChainValid = true, signatureValid = false ('Invalid cryptographic
\* signature'), the loop goes on to the entries before it, and on return
\* every entry is reported. (An exception leaves traverse only over an
\* absent record.)
C17_RecoveryFailureContained ==
    /\ pc = "thrown" => \E k \in 1..i : Signatures[k] = NullRecord
    /\ \A k \in Visited : RecoveryFails(k) =>
          /\ result.signatureResults[k - i] =
                SigResult(Signatures[k].signerId, FALSE, TRUE, FALSE, TRUE,
                          InvalidSignatureError(Signatures[k].signerId))
          /\ calls[k] = {"lookup", "hash", "verify"}
    /\ Traversed => Len(result.signatureResults) = NumSigs

C17_Witness ==
    /\ Traversed /\ NumSigs = MaxSigs
    /\ RecoveryFails(2)
    /\ Signatures[2].signature = <<"not-a-signature">>
    /\ InvalidSignatureResult(2)
    /\ FullyValid(result.signatureResults[1])
    /\ result.signatureResults[3].hasError

\* C19: whatever the document holds, an absent signature record included,
\* traverse returns a result and no exception leaves it.
C19_NeverThrows == pc # "thrown"

\* the check of index k alone: a function of the payload, of the records
\* up to k and of the registry
PerIndex(k) ==
    verifySignatureAtIndex(document.payload, Signatures[k], PrefixBefore(k),
                           signerRegistry)
\* the checks of the indices 1..n, each made once and by itself
RECURSIVE ChecksUpTo(_)
ChecksUpTo(n) == IF n = 0 THEN <<>> ELSE Append(ChecksUpTo(n - 1), PerIndex(n))
\* the orders in which the indices can be evaluated
Orders == Permutations(1..NumSigs)
\* the checks taken one after the other in the given order, the result of
\* each put at its index
RECURSIVE EvaluateInOrder(_, _, _)
EvaluateInOrder(order, collected, checks) ==
    IF order = <<>> THEN collected
    ELSE EvaluateInOrder(Tail(order),
                         [collected EXCEPT ![Head(order)] = checks[Head(order)].result],
                         checks)
\* the results by index, with the error of the highest invalid index
Assemble(collected) ==
    LET invalid == {k \in 1..Len(collected) : ~collected[k].isValid}
        highest == CHOOSE k \in invalid : \A j \in invalid : j <= k
    IN  Verification(invalid = {}, invalid # {},
                     IF invalid = {} THEN <<>>
                     ELSE ChainBrokenError(Signatures[highest].signerId),
                     collected)

\* C18: the check of an index reads the payload, the records up to that
\* index and the registry, and no other index's result; so the checks made
\* in any order give one and the same list by index, and that list,
\* assembled with the error of the highest invalid index, is exactly the
\* result the reverse traversal returns.
C18_OrderIndependent ==
    Traversed =>
        LET checks == ChecksUpTo(NumSigs)
            byIndex == [k \in 1..NumSigs |-> checks[k].result]
        IN  /\ \A order \in Orders :
                  EvaluateInOrder(order, [k \in 1..NumSigs |-> <<>>], checks) = byIndex
            /\ Assemble(byIndex) = result

C18_Witness ==
    /\ Traversed /\ NumSigs = MaxSigs
    /\ Cardinality(InvalidIndices) >= 2
    /\ \E k \in 1..NumSigs : result.signatureResults[k].isValid
    /\ Assemble(EvaluateInOrder([k \in 1..NumSigs |-> k], [k \in 1..NumSigs |-> <<>>],
                                ChecksUpTo(NumSigs)))
          = result

\* the list before its end was cut off, and the check of index k in it
Full == Signatures \o signed.removed
PerIndexInFull(k) ==
    verifySignatureAtIndex(document.payload, Full[k], SubSeq(Full, 1, k - 1),
                           signerRegistry)
\* traverse accepts the document with the full list: every check returns a
\* valid result (C14, C18)
AcceptsFull ==
    \A k \in 1..Len(Full) : ~PerIndexInFull(k).threw /\ PerIndexInFull(k).result.isValid
\* the check of index k over the records as they were signed
PerIndexAsSigned(k) ==
    verifySignatureAtIndex(document.payload, signed.signatures[k],
                           SubSeq(signed.signatures, 1, k - 1), signerRegistry)

\* C20: a document that traverse accepts is accepted too when its list is
\* cut after any of its records; and the result reported for index i is
\* the same after records of higher index were removed (or, read
\* backwards, added) or had a field altered.
C20_PrefixClosed ==
    Traversed =>
        /\ (Truncated /\ AcceptsFull) =>
              /\ result.isValid
              /\ \A k \in 1..NumSigs : FullyValid(result.signatureResults[k])
        /\ Truncated =>
              \A k \in 1..NumSigs :
                  PerIndexInFull(k).result = result.signatureResults[k]
        /\ \A j \in 1..NumSigs :
              (\E t \in tampers : t.kind = "record" /\ t.idx = j /\ t.field # "length") =>
                  \A k \in 1..(j - 1) :
                      PerIndexAsSigned(k).result = result.signatureResults[k]

C20_Witness ==
    /\ Traversed /\ Truncated /\ AcceptsFull
    /\ Len(Full) = MaxSigs /\ NumSigs = MaxSigs - 1
    /\ Full[MaxSigs].signerId # Full[1].signerId
    /\ result.isValid
====
